---- MODULE Spec2Model ----
(***************************************************************************)
(* Model of analyze_react_jobs.py: the salary parser, the yearly           *)
(* normalizer, the skill extractor, the two aggregation loops that use     *)
(* them and the step order of main.                                        *)
(*                                                                         *)
(* A text is a sequence of characters; a character is a one-element        *)
(* string, except EnDash, which stands for U+2013.  A number is a record   *)
(* [some, m, e]: absent when some is FALSE, else the decimal m / 10^e with *)
(* trailing zeros of the fraction dropped, so that equal floats are equal  *)
(* records.                                                                *)
(***************************************************************************)
EXTENDS Integers, Sequences, FiniteSets, TLC

VARIABLES
    row,          \* the record being analysed: its Salary Range and Required Skills fields
    parsed,       \* analyze_salaries: outcome of parse_salary for the row
    salary_data,  \* analyze_salaries: the entries appended so far
    skills_out,   \* extract_skills(row skills)
    skills_again, \* extract_skills of the tokens of skills_out joined with commas
    norm_call,    \* a call of normalize_to_yearly: arguments and result
    df,           \* main: the loaded table (a sequence of rows) or NoDf
    pc,           \* position of the running function
    report,       \* main: the report generated, or NoReport
    report_file,  \* main: contents of react_jobs_analysis_report.txt, or NoReport
    steps,        \* main: the steps taken so far, in order
    viz           \* main: outcome of generate_visualizations

vars == <<row, parsed, salary_data, skills_out, skills_again, norm_call,
          df, pc, report, report_file, steps, viz>>

----------------------------------------------------------------------------
(* Bounds of the model *)

MaxSalaryPieces == 4
MaxSkillPieces == 4
MaxValue == 40
MaxRows == 2

----------------------------------------------------------------------------
(* Characters *)

EnDash == "u2013"

DigitChars == <<"0", "1", "2", "3", "4", "5", "6", "7", "8", "9">>
UpperChars == <<"A", "B", "C", "D", "E", "F", "G", "H", "I", "J", "K", "L", "M",
                "N", "O", "P", "Q", "R", "S", "T", "U", "V", "W", "X", "Y", "Z">>
LowerChars == <<"a", "b", "c", "d", "e", "f", "g", "h", "i", "j", "k", "l", "m",
                "n", "o", "p", "q", "r", "s", "t", "u", "v", "w", "x", "y", "z">>

Range(f) == {f[i] : i \in DOMAIN f}

DigitSet == Range(DigitChars)
WordSet == Range(DigitChars) \cup Range(UpperChars) \cup Range(LowerChars) \cup {"_"}
UpperSet == Range(UpperChars)

\* \d
IsDigit(c) == c \in DigitSet
\* \s
IsSpace(c) == c \in {" ", "\t", "\n"}
\* \w: letters, digits and the underscore
IsWord(c) == c \in WordSet

DigitVal(c) == (CHOOSE i \in DOMAIN DigitChars : DigitChars[i] = c) - 1

\* str.lower() on one character
LowerChar(c) ==
    IF c \in UpperSet
    THEN LowerChars[CHOOSE i \in DOMAIN UpperChars : UpperChars[i] = c]
    ELSE c

\* s[i..j-1] in 1-based positions: the characters from position i up to, not including, j
Slice(s, i, j) == SubSeq(s, i, j - 1)

\* needle in s (Python's substring test)
Contains(s, needle) ==
    \E i \in 1..(Len(s) - Len(needle) + 1) : SubSeq(s, i, i + Len(needle) - 1) = needle

RECURSIVE Concat(_)
Concat(ss) == IF ss = <<>> THEN <<>> ELSE Head(ss) \o Concat(Tail(ss))

----------------------------------------------------------------------------
(* Numbers *)

None == [some |-> FALSE, m |-> 0, e |-> 0]

RECURSIVE Normal(_, _)
Normal(m, e) == IF e > 0 /\ m % 10 = 0 THEN Normal(m \div 10, e - 1)
                ELSE [some |-> TRUE, m |-> m, e |-> e]

RECURSIVE Pow10(_)
Pow10(n) == IF n = 0 THEN 1 ELSE 10 * Pow10(n - 1)

RECURSIVE DigitsValue(_)
DigitsValue(ds) == IF ds = <<>> THEN 0
                   ELSE 10 * DigitsValue(SubSeq(ds, 1, Len(ds) - 1)) + DigitVal(ds[Len(ds)])

\* float(t) for a text t matched by \d+(?:\.\d+)?
Float(t) ==
    IF \E i \in DOMAIN t : t[i] = "."
    THEN LET d == CHOOSE i \in DOMAIN t : t[i] = "."
             frac == SubSeq(t, d + 1, Len(t))
         IN  Normal(DigitsValue(SubSeq(t, 1, d - 1) \o frac), Len(frac))
    ELSE Normal(DigitsValue(t), 0)

FromInt(n) == Normal(n, 0)

\* a * k for an integer k
Times(a, k) == Normal(a.m * k, a.e)

\* a + b
Plus(a, b) ==
    LET e == IF a.e > b.e THEN a.e ELSE b.e
    IN  Normal(a.m * Pow10(e - a.e) + b.m * Pow10(e - b.e), e)

\* a / 2
Half(a) == Normal(a.m * 5, a.e + 1)

\* a <= b
Leq(a, b) ==
    LET e == IF a.e > b.e THEN a.e ELSE b.e
    IN  a.m * Pow10(e - a.e) <= b.m * Pow10(e - b.e)

\* Python truthiness of an optional float: None and 0.0 are false
Truthy(a) == a.some /\ a.m # 0

----------------------------------------------------------------------------
(* Field values supplied by the table reader *)

Missing == [kind |-> "missing", text |-> <<>>, num |-> 0]
Text(t) == [kind |-> "text", text |-> t, num |-> 0]
Num(n) == [kind |-> "num", text |-> <<>>, num |-> n]

\* pd.isna(v)
IsNa(v) == v.kind = "missing"

RECURSIVE IntToStr(_)
IntToStr(n) == IF n < 10 THEN <<DigitChars[n + 1]>>
               ELSE IntToStr(n \div 10) \o <<DigitChars[(n % 10) + 1]>>

\* str(v) for a value that is not missing
Str(v) == IF v.kind = "text" THEN v.text ELSE IntToStr(v.num)

NotSpecified == <<"N", "o", "t", " ", "s", "p", "e", "c", "i", "f", "i", "e", "d">>
SlashHour == <<"/", "h", "o", "u", "r">>
SlashMonth == <<"/", "m", "o", "n", "t", "h">>
SlashWeek == <<"/", "w", "e", "e", "k">>

----------------------------------------------------------------------------
(* The regular expressions of parse_salary.  re.search takes the leftmost   *)
(* start at which the pattern matches and, at that start, the first match   *)
(* in backtracking order: greedy quantifiers try their longest match first. *)

RECURSIVE Down(_, _)
\* <<hi, hi-1, ..., lo>>
Down(hi, lo) == IF hi < lo THEN <<>> ELSE <<hi>> \o Down(hi - 1, lo)

RECURSIVE DigitRunEnd(_, _)
\* the position after the longest run of digits starting at position i
DigitRunEnd(s, i) == IF i <= Len(s) /\ IsDigit(s[i]) THEN DigitRunEnd(s, i + 1) ELSE i

RECURSIVE SkipSpaces(_, _)
SkipSpaces(s, i) == IF i <= Len(s) /\ IsSpace(s[i]) THEN SkipSpaces(s, i + 1) ELSE i

\* (?:\.\d+)? after position k: the ends of the group's matches, longest first
FracEnds(s, k) ==
    IF k <= Len(s) /\ s[k] = "." THEN Down(DigitRunEnd(s, k + 1), k + 2) ELSE <<>>

\* \d+(?:\.\d+)? at position i: the positions after each match, in the order the
\* matcher tries them (most digits first; with the fraction before without it)
NumberEnds(s, i) ==
    LET top == DigitRunEnd(s, i)
    IN  Concat([j \in 1..(top - i) |-> FracEnds(s, top - j + 1) \o <<top - j + 1>>])

NoMatch == [found |-> FALSE, g1 |-> <<>>, g2 |-> <<>>]

IsDash(c) == c \in {"-", EnDash}

\* \s*[-u2013]\s* at position p, then a digit: the position of that digit, or 0.
\* A dash and a digit are not whitespace, so each \s* can only take the whole run.
RangeTail(s, p) ==
    LET a == SkipSpaces(s, p)
    IN  IF a <= Len(s) /\ IsDash(s[a])
        THEN LET b == SkipSpaces(s, a + 1)
             IN  IF b <= Len(s) /\ IsDigit(s[b]) THEN b ELSE 0
        ELSE 0

\* (\d+(?:\.\d+)?)\s*[-u2013]\s*(\d+(?:\.\d+)?) anchored at position i
RangeAt(s, i) ==
    LET ends == NumberEnds(s, i)
        ok == {j \in DOMAIN ends : RangeTail(s, ends[j]) # 0}
    IN  IF ok = {} THEN NoMatch
        ELSE LET j == CHOOSE x \in ok : \A y \in ok : x <= y
                 q == RangeTail(s, ends[j])
             IN  [found |-> TRUE, g1 |-> Slice(s, i, ends[j]),
                  g2 |-> Slice(s, q, NumberEnds(s, q)[1])]

\* (\d+(?:\.\d+)?)\+ anchored at position i
PlusAt(s, i) ==
    LET ends == NumberEnds(s, i)
        ok == {j \in DOMAIN ends : ends[j] <= Len(s) /\ s[ends[j]] = "+"}
    IN  IF ok = {} THEN NoMatch
        ELSE LET j == CHOOSE x \in ok : \A y \in ok : x <= y
             IN  [found |-> TRUE, g1 |-> Slice(s, i, ends[j]), g2 |-> <<>>]

\* (\d+(?:\.\d+)?) anchored at position i
SingleAt(s, i) ==
    LET ends == NumberEnds(s, i)
    IN  IF ends = <<>> THEN NoMatch
        ELSE [found |-> TRUE, g1 |-> Slice(s, i, ends[1]), g2 |-> <<>>]

\* re.search looks for a match at the leftmost position that has one
Leftmost(starts) == CHOOSE i \in starts : \A k \in starts : i <= k

RangeSearch(s) ==
    LET starts == {i \in 1..Len(s) : RangeAt(s, i).found}
    IN  IF starts = {} THEN NoMatch ELSE RangeAt(s, Leftmost(starts))

PlusSearch(s) ==
    LET starts == {i \in 1..Len(s) : PlusAt(s, i).found}
    IN  IF starts = {} THEN NoMatch ELSE PlusAt(s, Leftmost(starts))

SingleSearch(s) ==
    LET starts == {i \in 1..Len(s) : SingleAt(s, i).found}
    IN  IF starts = {} THEN NoMatch ELSE SingleAt(s, Leftmost(starts))

\* re.sub(r'[$,]', '', s)
RECURSIVE CleanSalary(_)
CleanSalary(s) ==
    IF s = <<>> THEN <<>>
    ELSE (IF Head(s) \in {"$", ","} THEN <<>> ELSE <<Head(s)>>) \o CleanSalary(Tail(s))

----------------------------------------------------------------------------
(* parse_salary *)

Returned(mn, mx, p) == [status |-> "returned", min |-> mn, max |-> mx, period |-> p]
Raised == [status |-> "raised", min |-> None, max |-> None, period |-> "unknown"]
NotCalled == [status |-> "none", min |-> None, max |-> None, period |-> "unknown"]

\* DeterminePeriod with the week marker looked for before the month marker
DeterminePeriodWeekFirst(s) ==
    IF Contains(s, SlashHour) THEN "hourly"
    ELSE IF Contains(s, SlashWeek) THEN "weekly"
    ELSE IF Contains(s, SlashMonth) THEN "monthly"
    ELSE "yearly"

\* lines 49-56; s is the original text
DeterminePeriod(s) ==
    IF Contains(s, SlashHour) THEN "hourly"
    ELSE IF Contains(s, SlashMonth) THEN "monthly"
    ELSE IF Contains(s, SlashWeek) THEN "weekly"
    ELSE "yearly"

\* ExtractBounds that keeps the period guess when no number is found
ExtractBoundsKeepsPeriod(clean, period) ==
    LET range_match == RangeSearch(clean)
        plus_match == PlusSearch(clean)
        single_match == SingleSearch(clean)
    IN  IF range_match.found
        THEN Returned(Float(range_match.g1), Float(range_match.g2), period)
        ELSE IF plus_match.found
        THEN Returned(Float(plus_match.g1), None, period)
        ELSE IF single_match.found
        THEN Returned(Float(single_match.g1), Float(single_match.g1), period)
        ELSE Returned(None, None, period)

\* ExtractBounds with the plus pattern tried before the range pattern
ExtractBoundsPlusFirst(clean, period) ==
    LET range_match == RangeSearch(clean)
        plus_match == PlusSearch(clean)
        single_match == SingleSearch(clean)
    IN  IF plus_match.found
        THEN Returned(Float(plus_match.g1), None, period)
        ELSE IF range_match.found
        THEN Returned(Float(range_match.g1), Float(range_match.g2), period)
        ELSE IF single_match.found
        THEN Returned(Float(single_match.g1), Float(single_match.g1), period)
        ELSE Returned(None, None, "unknown")

\* lines 58-77; clean is the cleaned text
ExtractBounds(clean, period) ==
    LET range_match == RangeSearch(clean)
        plus_match == PlusSearch(clean)
        single_match == SingleSearch(clean)
    IN  IF range_match.found
        THEN Returned(Float(range_match.g1), Float(range_match.g2), period)
        ELSE IF plus_match.found
        THEN Returned(Float(plus_match.g1), None, period)
        ELSE IF single_match.found
        THEN Returned(Float(single_match.g1), Float(single_match.g1), period)
        ELSE Returned(None, None, "unknown")

\* `"/hour" in salary_str` raises TypeError when salary_str is not a text (line 51)
parse_salary(salary_str) ==
    IF IsNa(salary_str) \/ (salary_str.kind = "text" /\ salary_str.text = NotSpecified)
    THEN Returned(None, None, "unknown")
    ELSE LET clean_salary == CleanSalary(Str(salary_str))
         IN  IF salary_str.kind # "text" THEN Raised
             ELSE ExtractBounds(clean_salary, DeterminePeriod(salary_str.text))

----------------------------------------------------------------------------
(* normalize_to_yearly *)

\* Multiplier with the weekly entry left out of the table
MultiplierNoWeekly(period) ==
    CASE period = "hourly" -> 2080
      [] period = "monthly" -> 12
      [] period = "yearly" -> 1
      [] OTHER -> 1

\* lines 84-91: multipliers.get(period, 1)
Multiplier(period) ==
    CASE period = "hourly" -> 2080
      [] period = "weekly" -> 52
      [] period = "monthly" -> 12
      [] period = "yearly" -> 1
      [] OTHER -> 1

normalize_to_yearly(salary, period) ==
    IF ~salary.some THEN None ELSE Times(salary, Multiplier(period))

----------------------------------------------------------------------------
(* analyze_salaries *)

\* self.df: None, or the table's rows
NoDf == [loaded |-> FALSE, rows |-> <<>>]
Table(rows) == [loaded |-> TRUE, rows |-> rows]

\* lines 101-115: the loop body for one row, given the parse result
SalaryEntry(p) ==
    LET yearly_min == normalize_to_yearly(p.min, p.period)
        yearly_max == normalize_to_yearly(IF Truthy(p.max) THEN p.max ELSE p.min, p.period)
    IN  [min_yearly |-> yearly_min,
         max_yearly |-> yearly_max,
         avg_yearly |-> Half(Plus(yearly_min, yearly_max)),
         original_period |-> p.period]

\* lines 103-115: the entries of a row with parse result p, in front of the loop's
\* result r for the rows after it
WithEntry(p, r) ==
    [status |-> r.status,
     salary_data |-> (IF p.min.some THEN <<SalaryEntry(p)>> ELSE <<>>) \o r.salary_data]

RECURSIVE SalaryLoop(_)
\* lines 100-115: the entries appended for rows; an exception of parse_salary ends
\* the loop
SalaryLoop(rows) ==
    IF rows = <<>> THEN [status |-> "returned", salary_data |-> <<>>]
    ELSE IF parse_salary(Head(rows).salary).status = "raised"
    THEN [status |-> "raised", salary_data |-> <<>>]
    ELSE WithEntry(parse_salary(Head(rows).salary), SalaryLoop(Tail(rows)))

analyze_salaries(d) ==
    IF d = NoDf THEN [status |-> "returned", salary_data |-> <<>>]
    ELSE SalaryLoop(d.rows)

----------------------------------------------------------------------------
(* extract_skills *)

\* re.split(r'[,;]', s): the fragments between delimiters, empty ones included
RECURSIVE SplitFrom(_, _)
SplitFrom(s, cur) ==
    IF s = <<>> THEN <<cur>>
    ELSE IF Head(s) \in {",", ";"} THEN <<cur>> \o SplitFrom(Tail(s), <<>>)
    ELSE SplitFrom(Tail(s), Append(cur, Head(s)))

Split(s) == SplitFrom(s, <<>>)

RECURSIVE LStrip(_)
LStrip(s) == IF s # <<>> /\ IsSpace(Head(s)) THEN LStrip(Tail(s)) ELSE s

RECURSIVE RStrip(_)
RStrip(s) == IF s # <<>> /\ IsSpace(s[Len(s)]) THEN RStrip(SubSeq(s, 1, Len(s) - 1)) ELSE s

\* str.strip()
Strip(s) == RStrip(LStrip(s))

\* str.lower()
Lower(s) == [i \in DOMAIN s |-> LowerChar(s[i])]

\* a character that [^\w\s+#.] does not match
Kept(c) == IsWord(c) \/ IsSpace(c) \/ c \in {"+", "#", "."}

\* re.sub(r'[^\w\s+#.]', '', s)
RECURSIVE RemoveOther(_)
RemoveOther(s) ==
    IF s = <<>> THEN <<>>
    ELSE (IF Kept(Head(s)) THEN <<Head(s)>> ELSE <<>>) \o RemoveOther(Tail(s))

\* CleanSkill without the lowercasing
CleanSkillNoLower(skill) == RemoveOther(Strip(skill))

\* lines 143-144
CleanSkill(skill) == RemoveOther(Lower(Strip(skill)))

\* lines 148-163: <<key, value>> pairs
skill_mappings ==
    <<
       <<<<"r", "e", "a", "c", "t", "j", "s">>,
         <<"r", "e", "a", "c", "t">>>>,
       <<<<"r", "e", "a", "c", "t", " ", "j", "s">>,
         <<"r", "e", "a", "c", "t">>>>,
       <<<<"r", "e", "a", "c", "t", ".", "j", "s">>,
         <<"r", "e", "a", "c", "t">>>>,
       <<<<"j", "a", "v", "a", "s", "c", "r", "i", "p", "t">>,
         <<"j", "a", "v", "a", "s", "c", "r", "i", "p", "t">>>>,
       <<<<"j", "s">>,
         <<"j", "a", "v", "a", "s", "c", "r", "i", "p", "t">>>>,
       <<<<"t", "y", "p", "e", "s", "c", "r", "i", "p", "t">>,
         <<"t", "y", "p", "e", "s", "c", "r", "i", "p", "t">>>>,
       <<<<"t", "s">>,
         <<"t", "y", "p", "e", "s", "c", "r", "i", "p", "t">>>>,
       <<<<"n", "o", "d", "e", "j", "s">>,
         <<"n", "o", "d", "e", ".", "j", "s">>>>,
       <<<<"n", "o", "d", "e", " ", "j", "s">>,
         <<"n", "o", "d", "e", ".", "j", "s">>>>,
       <<<<"n", "e", "x", "t", "j", "s">>,
         <<"n", "e", "x", "t", ".", "j", "s">>>>,
       <<<<"n", "e", "x", "t", " ", "j", "s">>,
         <<"n", "e", "x", "t", ".", "j", "s">>>>,
       <<<<"r", "e", "a", "c", "t", " ", "n", "a", "t", "i", "v", "e">>,
         <<"r", "e", "a", "c", "t", " ", "n", "a", "t", "i", "v", "e">>>>,
       <<<<"h", "t", "m", "l", "5">>,
         <<"h", "t", "m", "l">>>>,
       <<<<"c", "s", "s", "3">>,
         <<"c", "s", "s">>>>
    >>

\* skill_mappings.get(k, k)
MapSkill(k) ==
    IF \E i \in DOMAIN skill_mappings : skill_mappings[i][1] = k
    THEN skill_mappings[CHOOSE i \in DOMAIN skill_mappings : skill_mappings[i][1] = k][2]
    ELSE k

RECURSIVE CleanAll(_)
\* lines 141-166: the loop over the fragments
CleanAll(frags) ==
    IF frags = <<>> THEN <<>>
    ELSE LET clean_skill == CleanSkill(Head(frags))
         IN  (IF clean_skill # <<>> /\ Len(clean_skill) > 1
              THEN <<MapSkill(clean_skill)>> ELSE <<>>) \o CleanAll(Tail(frags))

extract_skills(skills_str) ==
    IF IsNa(skills_str) THEN <<>> ELSE CleanAll(Split(Str(skills_str)))

\* ",".join(tokens)
RECURSIVE Join(_)
Join(tokens) ==
    IF tokens = <<>> THEN <<>>
    ELSE IF Len(tokens) = 1 THEN tokens[1]
    ELSE tokens[1] \o <<",">> \o Join(Tail(tokens))

----------------------------------------------------------------------------
(* analyze_skills *)

RECURSIVE CountOf(_, _)
CountOf(all, x) ==
    IF all = <<>> THEN 0
    ELSE (IF Head(all) = x THEN 1 ELSE 0) + CountOf(Tail(all), x)

RECURSIVE Uniq(_)
\* the distinct elements of all in the order of their first occurrence (a Counter's key order)
Uniq(all) ==
    IF all = <<>> THEN <<>>
    ELSE IF \E i \in 1..(Len(all) - 1) : all[i] = all[Len(all)]
    THEN Uniq(SubSeq(all, 1, Len(all) - 1))
    ELSE Append(Uniq(SubSeq(all, 1, Len(all) - 1)), all[Len(all)])

\* the position of items[i] once sorted by count, highest first; equal counts keep
\* their order (the sort is stable)
RankByCount(items, i) ==
    1 + Cardinality({j \in DOMAIN items :
                        items[j][2] > items[i][2] \/ (items[j][2] = items[i][2] /\ j < i)})

SortByCount(items) ==
    [k \in DOMAIN items |-> items[CHOOSE i \in DOMAIN items : RankByCount(items, i) = k]]

FirstN(q, n) == SubSeq(q, 1, IF Len(q) < n THEN Len(q) ELSE n)

\* Counter(all).most_common(n): <<skill, count>> pairs, highest count first
MostCommon(all, n) ==
    LET keys == Uniq(all)
    IN  FirstN(SortByCount([i \in DOMAIN keys |-> <<keys[i], CountOf(all, keys[i])>>]), n)

RECURSIVE AllSkills(_)
\* lines 178-180: all_skills after the loop over rows
AllSkills(rows) ==
    IF rows = <<>> THEN <<>>
    ELSE extract_skills(Head(rows).skills) \o AllSkills(Tail(rows))

\* lines 181-182
IfAny(skills) == IF skills # <<>> THEN <<skills>> ELSE <<>>

RECURSIVE SkillCombinations(_)
\* lines 178-182: skill_combinations after the loop over rows
SkillCombinations(rows) ==
    IF rows = <<>> THEN <<>>
    ELSE IfAny(extract_skills(Head(rows).skills)) \o SkillCombinations(Tail(rows))

TopSkills == 20
TopPercent == 15

\* (count / jobs) * 100 as the fraction num / den
Percent(count, jobs) == [num |-> count * 100, den |-> jobs]

\* lines 194-201 for all_skills, jobs = len(skill_combinations) and
\* top = skill_counter.most_common(15); count / jobs raises ZeroDivisionError on 0
SkillStats(all_skills, jobs, top) ==
    IF top # <<>> /\ jobs = 0 THEN [status |-> "raised", empty |-> FALSE]
    ELSE [status |-> "returned", empty |-> FALSE,
          total_skills_mentioned |-> Len(all_skills),
          unique_skills |-> Len(Uniq(all_skills)),
          jobs_with_skills |-> jobs,
          most_common_skills |-> MostCommon(all_skills, TopSkills),
          skill_frequency_percent |->
              [i \in DOMAIN top |-> <<top[i][1], Percent(top[i][2], jobs)>>]]

\* lines 184-201
StatsOf(all_skills, jobs) == SkillStats(all_skills, jobs, MostCommon(all_skills, TopPercent))

analyze_skills(d) ==
    IF d = NoDf THEN [status |-> "returned", empty |-> TRUE]
    ELSE StatsOf(AllSkills(d.rows), Len(SkillCombinations(d.rows)))

----------------------------------------------------------------------------
(* generate_report, generate_visualizations *)

NoReport == [status |-> "none"]

\* skill_frequency_percent.get(skill, 0)
PercentOf(sk, skill) ==
    IF \E i \in DOMAIN sk.skill_frequency_percent : sk.skill_frequency_percent[i][1] = skill
    THEN sk.skill_frequency_percent[
             CHOOSE i \in DOMAIN sk.skill_frequency_percent :
                 sk.skill_frequency_percent[i][1] = skill][2]
    ELSE [num |-> 0, den |-> 1]

\* lines 309-312: the lines of the skills section
SkillLines(sk, top) ==
    [i \in DOMAIN top |->
        [skill |-> top[i][1], jobs |-> top[i][2], percentage |-> PercentOf(sk, top[i][1])]]

\* lines 278-335: the figures the report prints, from the analyses' results
ReportOf(d, salary_analysis, skills_analysis) ==
    IF salary_analysis.status = "raised" \/ skills_analysis.status = "raised"
    THEN [status |-> "raised"]
    ELSE [status |-> "returned",
          total_jobs |-> Len(d.rows),
          jobs_with_salary |-> Len(salary_analysis.salary_data),
          total_skills_mentioned |-> skills_analysis.total_skills_mentioned,
          jobs_with_skills |-> skills_analysis.jobs_with_skills,
          skill_lines |->
              SkillLines(skills_analysis, FirstN(skills_analysis.most_common_skills, TopPercent))]

\* lines 269-276; an exception of an analysis leaves generate_report
generate_report(d) ==
    IF d = NoDf THEN [status |-> "no_data"]
    ELSE ReportOf(d, analyze_salaries(d), analyze_skills(d))

\* lines 232-234: zip(*top_skills) of an empty list cannot be unpacked into two names
NoTopSkills(skills_analysis) ==
    ~skills_analysis.empty /\ skills_analysis.most_common_skills = <<>>

\* lines 231-237
VisualizationRaises(d) == NoTopSkills(analyze_skills(d))

----------------------------------------------------------------------------
(* Inputs *)

\* the ways to put at most n pieces in a row; Concat of one is a text
PieceSeqs(pieces, n) == UNION {[1..k -> pieces] : k \in 0..n}

SalaryPieces ==
    {<<"0">>, <<"5">>, <<".">>, <<"-">>, <<"+">>, <<"$">>, <<" ">>,
     SlashHour, SlashMonth, SlashWeek}

\* with the other characters the code names and the sentinel text, tried in texts
\* one piece shorter
AllSalaryPieces == SalaryPieces \cup {<<EnDash>>, <<",">>, NotSpecified}

\* field values that are not texts: a missing value, numbers of a numeric column
NonTexts == {Missing, Num(5), Num(50)}

SkillPieces ==
    {<<"r", "e", "a", "c", "t">>, <<"j", "s">>, <<"J">>, <<" ">>, <<".">>, <<"+">>, <<"#">>,
     <<",">>, <<";">>, <<"-">>, <<"_">>}


Periods == {"hourly", "weekly", "monthly", "yearly", "unknown", "daily"}

NormalizeValues == {None} \cup {FromInt(n) : n \in 0..MaxValue}

\* rows of the tables main may load
SampleSalaries ==
    {Missing, Text(NotSpecified), Text(<<"$", "5", "0", "/", "h", "o", "u", "r">>),
     Text(<<"5", "-", "0">>), Num(50)}

SampleSkills ==
    {Missing, Text(<<"R", "e", "a", "c", "t", ",", " ", "J", "S">>),
     Text(<<"r", "e", "a", "c", "t", "j", "s", ";", "r", "e", "a", "c", "t">>),
     Text(<<"-">>)}

SampleRows == {[salary |-> a, skills |-> b] : a \in SampleSalaries, b \in SampleSkills}

Tables == UNION {[1..n -> SampleRows] : n \in 0..MaxRows}

\* pd.read_csv: the rows read, or an exception (file missing, unreadable)
ReadOutcomes ==
    {[raised |-> TRUE, rows |-> <<>>]} \cup {[raised |-> FALSE, rows |-> t] : t \in Tables}

----------------------------------------------------------------------------
(* State *)

IdleRow == [salary |-> Missing, skills |-> Missing]
NoCall == [salary |-> None, period |-> "unknown", called |-> FALSE, result |-> None]

\* the state of everything a specification does not exercise
IdleSalary == parsed = NotCalled /\ salary_data = <<>>
IdleSkills == skills_out = <<>> /\ skills_again = <<>>
IdleNormalize == norm_call = NoCall
IdleMain == df = NoDf /\ report = NoReport /\ report_file = NoReport
            /\ steps = <<>> /\ viz = "none"

----------------------------------------------------------------------------
(* analyze_salaries on a table of one row *)

InitSalary ==
    /\ \/ \E v \in NonTexts : row = [salary |-> v, skills |-> Missing]
       \/ \E f \in PieceSeqs(SalaryPieces, MaxSalaryPieces) :
             row = [salary |-> Text(Concat(f)), skills |-> Missing]
       \/ \E f \in PieceSeqs(AllSalaryPieces, MaxSalaryPieces - 1) :
             row = [salary |-> Text(Concat(f)), skills |-> Missing]
    /\ pc = "analyze_salaries"
    /\ IdleSalary /\ IdleSkills /\ IdleNormalize /\ IdleMain

AnalyzeSalaries ==
    /\ pc = "analyze_salaries"
    /\ \E r \in {analyze_salaries(Table(<<row>>))} :
           /\ parsed' = parse_salary(row.salary)
           /\ salary_data' = r.salary_data
           /\ pc' = IF r.status = "raised" THEN "raised" ELSE "done"
    /\ UNCHANGED <<row, skills_out, skills_again, norm_call, df, report, report_file,
                   steps, viz>>

NextSalary == AnalyzeSalaries

SpecSalary == InitSalary /\ [][NextSalary]_vars

----------------------------------------------------------------------------
(* normalize_to_yearly *)

InitNormalize ==
    /\ norm_call \in {[salary |-> v, period |-> p, called |-> FALSE, result |-> None] :
                         v \in NormalizeValues, p \in Periods}
    /\ pc = "normalize_to_yearly"
    /\ row = IdleRow
    /\ IdleSalary /\ IdleSkills /\ IdleMain

NormalizeToYearly ==
    /\ pc = "normalize_to_yearly"
    /\ norm_call' = [norm_call EXCEPT !.called = TRUE,
                       !.result = normalize_to_yearly(norm_call.salary, norm_call.period)]
    /\ pc' = "done"
    /\ UNCHANGED <<row, parsed, salary_data, skills_out, skills_again, df, report,
                   report_file, steps, viz>>

NextNormalize == NormalizeToYearly

SpecNormalize == InitNormalize /\ [][NextNormalize]_vars

----------------------------------------------------------------------------
(* extract_skills, and extract_skills again on its joined result *)

InitSkills ==
    /\ \/ \E v \in NonTexts : row = [salary |-> Missing, skills |-> v]
       \/ \E f \in PieceSeqs(SkillPieces, MaxSkillPieces) :
             row = [salary |-> Missing, skills |-> Text(Concat(f))]
    /\ pc = "extract_skills"
    /\ IdleSalary /\ IdleSkills /\ IdleNormalize /\ IdleMain

ExtractSkills ==
    /\ pc = "extract_skills"
    /\ skills_out' = extract_skills(row.skills)
    /\ pc' = "extracted"
    /\ UNCHANGED <<row, parsed, salary_data, skills_again, norm_call, df, report,
                   report_file, steps, viz>>

ExtractAgain ==
    /\ pc = "extracted"
    /\ skills_again' = extract_skills(Text(Join(skills_out)))
    /\ pc' = "done"
    /\ UNCHANGED <<row, parsed, salary_data, skills_out, norm_call, df, report,
                   report_file, steps, viz>>

NextSkills == ExtractSkills \/ ExtractAgain

SpecSkills == InitSkills /\ [][NextSkills]_vars

----------------------------------------------------------------------------
(* main *)

InitMain ==
    /\ pc = "main"
    /\ row = IdleRow
    /\ IdleSalary /\ IdleSkills /\ IdleNormalize /\ IdleMain

\* lines 25-36: read_csv gives a table, or raises and df stays None
load_data(outcome) == IF outcome.raised THEN NoDf ELSE Table(outcome.rows)

\* AfterLoad without the test of df
AfterLoadNoTest(d) == "generate_report"

\* lines 344-346
AfterLoad(d) == IF d = NoDf THEN "exited" ELSE "generate_report"

\* lines 341-346
Load ==
    /\ pc = "main"
    /\ \E outcome \in ReadOutcomes :
          /\ df' = load_data(outcome)
          /\ pc' = AfterLoad(df')
    /\ steps' = Append(steps, "load")
    /\ UNCHANGED <<row, parsed, salary_data, skills_out, skills_again, norm_call,
                   report, report_file, viz>>

\* lines 349-350; an exception in generate_report ends the run
GenerateReport ==
    /\ pc = "generate_report"
    /\ \E r \in {generate_report(df)} :
           IF r.status = "raised"
           THEN /\ pc' = "crashed"
                /\ UNCHANGED <<report, steps>>
           ELSE /\ report' = r
                /\ steps' = Append(steps, "report")
                /\ pc' = "write_report"
    /\ UNCHANGED <<row, parsed, salary_data, skills_out, skills_again, norm_call,
                   df, report_file, viz>>

\* lines 353-355; open or write may fail, which ends the run
WriteReport ==
    /\ pc = "write_report"
    /\ \/ /\ report_file' = report
          /\ steps' = Append(steps, "write")
          /\ pc' = "visualize"
       \/ /\ pc' = "crashed"
          /\ UNCHANGED <<report_file, steps>>
    /\ UNCHANGED <<row, parsed, salary_data, skills_out, skills_again, norm_call,
                   df, report, viz>>

\* lines 358-362: the plotting library may fail; every Exception is caught
Visualize ==
    /\ pc = "visualize"
    /\ \/ /\ ~VisualizationRaises(df)
          /\ viz' = "saved"
       \/ viz' = "failed"
    /\ steps' = Append(steps, "visualize")
    /\ pc' = "complete"
    /\ UNCHANGED <<row, parsed, salary_data, skills_out, skills_again, norm_call,
                   df, report, report_file>>

\* line 364
Complete ==
    /\ pc = "complete"
    /\ steps' = Append(steps, "complete")
    /\ pc' = "done"
    /\ UNCHANGED <<row, parsed, salary_data, skills_out, skills_again, norm_call,
                   df, report, report_file, viz>>

NextMain == Load \/ GenerateReport \/ WriteReport \/ Visualize \/ Complete

SpecMain == InitMain /\ [][NextMain]_vars

\* control that has left the try statement goes on to the statement after it
FairMain == SpecMain /\ WF_vars(Complete)

----------------------------------------------------------------------------
(* Properties of parse_salary *)

HasDigit(t) == \E i \in DOMAIN t : IsDigit(t[i])

AllDigits(t) == t # <<>> /\ \A i \in DOMAIN t : IsDigit(t[i])

\* t is an integer or a decimal numeral
IsNumeral(t) ==
    \/ AllDigits(t)
    \/ \E d \in DOMAIN t :
          t[d] = "." /\ AllDigits(SubSeq(t, 1, d - 1)) /\ AllDigits(SubSeq(t, d + 1, Len(t)))

\* t is optional whitespace, one hyphen or en-dash, optional whitespace
IsRangeSeparator(t) ==
    \E d \in DOMAIN t :
        /\ IsDash(t[d])
        /\ \A i \in DOMAIN t : i # d => IsSpace(t[i])

UnknownSalary == Returned(None, None, "unknown")

\* the Salary Range field is missing or a text, and analyze_salaries has run
SalaryTextAnalysed == pc # "analyze_salaries" /\ row.salary.kind \in {"missing", "text"}

\* the field is missing, is the text "Not specified", or holds no digit
Unparseable(v) == IsNa(v) \/ v.text = NotSpecified \/ ~HasDigit(v.text)

\* C1: for a missing or text input parse_salary returns (absent, absent, "unknown")
\* exactly when the input is missing, is "Not specified" or holds no number;
\* otherwise min is present and the period is hourly, weekly, monthly or yearly.
\* No result has min present with period "unknown" or max present with min absent.
C1_UnknownExactlyWhenNoNumber ==
    SalaryTextAnalysed =>
        /\ parsed.status = "returned"
        /\ Unparseable(row.salary) <=> parsed = UnknownSalary
        /\ ~Unparseable(row.salary) =>
               parsed.min.some /\ parsed.period \in {"hourly", "weekly", "monthly", "yearly"}
        /\ parsed.min.some => parsed.period # "unknown"
        /\ parsed.max.some => parsed.min.some

\* a text with a period marker and no number was parsed
C1_Witness ==
    /\ SalaryTextAnalysed
    /\ Contains(row.salary.text, SlashHour)
    /\ ~HasDigit(row.salary.text)
    /\ parsed = UnknownSalary

\* the numeral that starts at position j of a text in range form
SecondNumeral(clean, j) ==
    IF clean[Len(clean)] = "+" THEN Slice(clean, j, Len(clean))
    ELSE Slice(clean, j, Len(clean) + 1)

\* the cleaned text is A sep B, or A sep B +, with numerals A <= B
RangeForm(clean, i, j) ==
    /\ IsNumeral(Slice(clean, 1, i))
    /\ IsRangeSeparator(Slice(clean, i, j))
    /\ \/ IsNumeral(Slice(clean, j, Len(clean) + 1))
       \/ /\ clean[Len(clean)] = "+"
          /\ IsNumeral(Slice(clean, j, Len(clean)))
    /\ Leq(Float(Slice(clean, 1, i)), Float(SecondNumeral(clean, j)))

\* C2: the patterns are applied to the cleaned text in the order range, plus, single
\* and the first that matches gives the bounds: (A, B) for a range, (n, absent) for
\* n+, (n, n) for a bare n.  A text "A-B" with A <= B gives min = A and max = B, also
\* when a '+' follows it.
C2_FirstPatternDecides ==
    (SalaryTextAnalysed /\ row.salary.kind = "text" /\ row.salary.text # NotSpecified) =>
        LET clean == CleanSalary(row.salary.text)
            r == RangeSearch(clean)
            p == PlusSearch(clean)
            n == SingleSearch(clean)
        IN  /\ r.found => parsed.min = Float(r.g1) /\ parsed.max = Float(r.g2)
            /\ (~r.found /\ p.found) => parsed.min = Float(p.g1) /\ parsed.max = None
            /\ (~r.found /\ ~p.found /\ n.found) =>
                   parsed.min = Float(n.g1) /\ parsed.max = Float(n.g1)
            /\ \A i, j \in 1..Len(clean) :
                   (i < j /\ RangeForm(clean, i, j)) =>
                       /\ parsed.min = Float(Slice(clean, 1, i))
                       /\ parsed.max = Float(SecondNumeral(clean, j))

\* a text such as "5-50+", which the range and the plus pattern both match, was parsed
C2_Witness ==
    /\ SalaryTextAnalysed /\ row.salary.kind = "text"
    /\ LET clean == CleanSalary(row.salary.text)
       IN  /\ Len(clean) = 4 /\ clean[4] = "+" /\ RangeForm(clean, 2, 3)
           /\ PlusSearch(clean).found
           /\ parsed.max.some /\ parsed.max # parsed.min

\* position of the first occurrence of needle in s, 0 when there is none
FirstAt(s, needle) ==
    IF Contains(s, needle)
    THEN CHOOSE i \in 1..Len(s) :
             /\ SubSeq(s, i, i + Len(needle) - 1) = needle
             /\ \A k \in 1..(i - 1) : SubSeq(s, k, k + Len(needle) - 1) # needle
    ELSE 0

\* C3: when a number is found, the period is hourly if the original text contains
\* "/hour", else monthly if it contains "/month", else weekly if it contains "/week",
\* else yearly, wherever in the text the markers are.
C3_PeriodPrecedence ==
    (SalaryTextAnalysed /\ parsed.min.some) =>
        LET t == row.salary.text
        IN  /\ Contains(t, SlashHour) => parsed.period = "hourly"
            /\ (~Contains(t, SlashHour) /\ Contains(t, SlashMonth)) => parsed.period = "monthly"
            /\ (~Contains(t, SlashHour) /\ ~Contains(t, SlashMonth) /\ Contains(t, SlashWeek))
                   => parsed.period = "weekly"
            /\ (~Contains(t, SlashHour) /\ ~Contains(t, SlashMonth) /\ ~Contains(t, SlashWeek))
                   => parsed.period = "yearly"

\* a text with "/week" in front of "/month" and a number was parsed as monthly
C3_Witness ==
    /\ SalaryTextAnalysed /\ parsed.min.some
    /\ LET t == row.salary.text
       IN  /\ Contains(t, SlashWeek) /\ Contains(t, SlashMonth) /\ ~Contains(t, SlashHour)
           /\ FirstAt(t, SlashWeek) < FirstAt(t, SlashMonth)
    /\ parsed.period = "monthly"

\* C7: parse_salary returns a triple for every field value the table reader can
\* supply, a number of a numeric column included: it never raises.
C7_ParseSalaryNeverRaises ==
    pc # "analyze_salaries" => parsed.status = "returned" /\ pc # "raised"

\* C8: a record contributes an entry exactly when its parsed min is present, and then
\* avg_yearly is (min + max) / 2 in yearly terms, max standing for min only when the
\* parsed max is absent.
C8_AvgYearlyOfParsedBounds ==
    pc = "done" =>
        /\ parsed.min.some <=> Len(salary_data) = 1
        /\ parsed.min.some =>
               LET max_sal == IF parsed.max.some THEN parsed.max ELSE parsed.min
               IN  salary_data[1].avg_yearly =
                       Times(Half(Plus(parsed.min, max_sal)), Multiplier(parsed.period))

----------------------------------------------------------------------------
(* Properties of normalize_to_yearly *)

\* C4: normalize_to_yearly(v, p) is absent when v is absent; otherwise v x 2080 for
\* hourly, v x 52 for weekly, v x 12 for monthly and v x 1 for yearly, "unknown" and
\* any other period; normalize_to_yearly(40, "hourly") = 83200.  The call leaves
\* every other variable as it was.
C4_YearlyMultipliers ==
    /\ norm_call.called =>
          LET v == norm_call.salary
              p == norm_call.period
              r == norm_call.result
          IN  /\ ~v.some => r = None
              /\ (v.some /\ p = "hourly") => r = Times(v, 2080)
              /\ (v.some /\ p = "weekly") => r = Times(v, 52)
              /\ (v.some /\ p = "monthly") => r = Times(v, 12)
              /\ (v.some /\ p \notin {"hourly", "weekly", "monthly"}) => r = v
              /\ (v = FromInt(40) /\ p = "hourly") => r = FromInt(83200)
    /\ row = IdleRow /\ IdleSalary /\ IdleSkills /\ IdleMain

\* normalize_to_yearly(40, "hourly") was called
C4_Witness ==
    /\ norm_call.called
    /\ norm_call.salary = FromInt(40) /\ norm_call.period = "hourly"
    /\ norm_call.result = FromInt(83200)

----------------------------------------------------------------------------
(* Properties of extract_skills *)

\* C5: extract_skills of the joined tokens of extract_skills(s) is the same sequence.
C5_ExtractSkillsIdempotent == pc = "done" => skills_again = skills_out

IsAlnum(c) == IsWord(c) /\ c # "_"

\* the characters the cleaning is said to keep, and those of extra
Allowed(c, extra) == IsAlnum(c) \/ IsSpace(c) \/ c \in {"+", "#", "."} \/ c \in extra

\* the tokens of the fragments frags: trim, lowercase, keep the allowed characters,
\* drop what is shorter than two characters, look the rest up in the synonym table
TokensOf(frags, extra) ==
    LET cleaned == [i \in DOMAIN frags |->
                       SelectSeq(Lower(Strip(frags[i])), LAMBDA c : Allowed(c, extra))]
        keep == {i \in DOMAIN frags : Len(cleaned[i]) > 1}
        nth(k) == CHOOSE i \in keep : Cardinality({j \in keep : j < i}) = k - 1
    IN  [k \in 1..Cardinality(keep) |-> MapSkill(cleaned[nth(k)])]

SkillsAsStated(extra) ==
    pc # "extract_skills" =>
        IF IsNa(row.skills) THEN skills_out = <<>>
        ELSE /\ skills_out = TokensOf(Split(Str(row.skills)), extra)
             /\ \A i \in DOMAIN skills_out :
                    /\ Len(skills_out[i]) > 1
                    /\ \A k \in DOMAIN skills_out[i] : Allowed(skills_out[i][k], extra)

\* C6 as stated: the cleaning removes every character that is not alphanumeric,
\* whitespace, '+', '#' or '.'.
C6_AsStated == SkillsAsStated({})

\* C6: extract_skills returns the fragments between ',' and ';', each trimmed,
\* lowercased and stripped of every character that is not alphanumeric, an
\* underscore, whitespace, '+', '#' or '.', without those left empty or with one
\* character, each replaced by its synonym: in the original order, duplicates kept,
\* every token longer than one character and made of the kept characters.  A missing
\* input gives the empty sequence.
C6_TokensInOrder == SkillsAsStated({"_"})

\* a text with a dropped fragment and one token twice was extracted
C6_Witness ==
    /\ pc # "extract_skills" /\ row.skills.kind = "text"
    /\ Len(skills_out) = 2 /\ skills_out[1] = skills_out[2]
    /\ Len(Split(row.skills.text)) > 2

----------------------------------------------------------------------------
(* Properties of main and analyze_skills *)

StepOrder == <<"load", "report", "write", "visualize", "complete">>

IsPrefix(a, b) == Len(a) <= Len(b) /\ \A i \in DOMAIN a : a[i] = b[i]

\* the steps so far are in the order of main; a failed load ends the run with no
\* report, no file and no visualization; the file is written before visualization
StepsInOrder ==
    /\ IsPrefix(steps, StepOrder)
    /\ (pc # "main" /\ ~df.loaded) =>
           /\ pc = "exited" /\ steps = <<"load">>
           /\ report = NoReport /\ report_file = NoReport /\ viz = "none"
           /\ ~ENABLED NextMain
    /\ viz # "none" => report_file.status = "returned" /\ report_file = report

\* C9: the steps of main occur only in the order load, report generated, report file
\* written, visualization attempted, "Analysis complete"; a failed load ends the run
\* before the report; the file is written before visualization is attempted; and
\* after a failure of generate_visualizations the run reaches "Analysis complete"
\* with the report file written.
C9_MainStepOrder ==
    /\ []StepsInOrder
    /\ (viz = "failed") ~> (pc = "done" /\ steps = StepOrder /\ report_file.status = "returned")

\* a run whose visualization failed has completed
C9_Witness == viz = "failed" /\ pc = "done" /\ steps = StepOrder

\* C10: analyze_skills never divides by zero, and the count of every skill is at most
\* the number of records with a non-empty skill list, so its percentage is in (0, 100].
C10_SkillCountWithinJobs ==
    /\ df.loaded => analyze_skills(df).status = "returned"
    /\ report.status = "returned" =>
           \A i \in DOMAIN report.skill_lines :
               LET line == report.skill_lines[i]
               IN  /\ line.jobs <= report.jobs_with_skills
                   /\ line.percentage.num > 0
                   /\ line.percentage.num <= 100 * line.percentage.den

====
